---- MODULE Spec2Model ----
(***************************************************************************)
(* Model of ashwynh21/ash.api: the Service class composes, per route, a    *)
(* chain of express handlers (authentication gate, before-hooks, callback, *)
(* after-hooks, CRUD handlers) and shapes every answer with exit().        *)
(*                                                                         *)
(* A request is a record that walks the handler stack of its route.  A     *)
(* handler invocation is synchronous up to the promise it waits for; the   *)
(* settlement of that promise runs the handler's .then or .catch branch,   *)
(* which either calls exit() or calls the framework's next(), and next()   *)
(* synchronously invokes the following handler of the stack.               *)
(***************************************************************************)
EXTENDS Integers, Sequences, FiniteSets, TLC

\* Bounds of the model.
MaxHooks == 2            \* longest before / after list of a descriptor
NumReqs  == 2            \* requests the server can be handed

Reqs  == 1..NumReqs
Hooks == {"h1", "h2"}    \* the distinct hook functions a descriptor may list

Absent == "absent"       \* a key that is not in an object

\* Values a hook, the callback or authenticate() can resolve with.
Results == {"undefined", "value"}
Truthy(v) == v \notin {"undefined", "null", "absent", "NaN", "#0", "''"}

\* error.message of the errors the collaborators raise.
HookError == "hook failed"
AuthError == "Oops, authentication error occurred!"

\* Sequences over S of length at most n.
SeqsUpTo(S, n) == UNION {[1..k -> S] : k \in 0..n}

VARIABLES
    value,       \* the Subservice descriptor registered by addservices
    properties,  \* the constructor's properties (store)
    db,          \* the stored records of the resource, in insertion order
    todo,        \* requests not yet received
    requests,    \* per request: position in its chain, log, responses
    store,       \* the Store object: constructor position, steps, cache
    call         \* the authorize(data) call: position, lookups, outcome

vars == <<value, properties, db, todo, requests, store, call>>

(***************************************************************************)
(* Request data: body and query are objects over these keys; a key that is *)
(* missing holds Absent.                                                   *)
(***************************************************************************)
Keys == {"_id", "f", "page", "size"}

NoData == [k \in Keys |-> Absent]

\* {...request.body, ...request.query}: a key of the query overrides the body's.
Merge(body, query) ==
    [k \in Keys |-> IF query[k] # Absent THEN query[k] ELSE body[k]]

(***************************************************************************)
(* Payloads of an envelope: the request data object, or a value a stage    *)
(* resolved with.                                                          *)
(***************************************************************************)
Payload(tag, d, v, docs, n) ==
    [tag |-> tag, data |-> d, result |-> v, docs |-> docs, length |-> n]

DataPayload(d)    == Payload("data", d, Absent, << >>, 0)
ResultPayload(v)  == Payload("result", NoData, v, << >>, 0)
BodyPayload(b)    == Payload("body", b, Absent, << >>, 0)
DocPayload(doc)   == Payload("doc", [NoData EXCEPT !._id = doc._id, !.f = doc.f],
                             Absent, << >>, 0)
ListPayload(docs) == Payload("list", NoData, Absent, docs, 0)
PagePayload(docs, n) == Payload("page", NoData, Absent, docs, n)
NoPayload         == Payload("none", NoData, Absent, << >>, 0)

\* Array.prototype.indexOf, 1-based (0 when x is not in s).
IndexOf(s, x) ==
    IF \E i \in 1..Len(s) : s[i] = x
    THEN CHOOSE i \in 1..Len(s) : s[i] = x /\ \A j \in 1..(i - 1) : s[j] # x
    ELSE 0

(***************************************************************************)
(* Handler registration.  Each call of context[method](path, fn) appends   *)
(* one handler to the route's stack; the stack is the order of the calls.  *)
(***************************************************************************)
Handler(kind, hook, fn) == [kind |-> kind, hook |-> hook, fn |-> fn]

\* Service.authenticate(service, key): the gate, when the flag is set.
authenticate(service) ==
    IF service.authenticate
    THEN << Handler("authenticate", "none", "authenticate") >>
    ELSE << >>

\* hooker(callback, hook) inside addservices: one handler per hook.
hooker(callback, hook) == << Handler("hooker", hook, callback) >>

\* value.hooks?.before?.forEach / value.hooks?.after?.forEach
RECURSIVE forEach(_, _)
forEach(list, hook) ==
    IF list = << >> THEN << >>
    ELSE hooker(Head(list), hook) \o forEach(Tail(list), hook)

\* A mutant of addservices: the after-hooks are registered before the callback.
addservices_afterfirst(service) ==
    authenticate(service)
        \o forEach(service.before, "before")
        \o forEach(service.after, "after")
        \o (IF service.callback
            THEN << Handler("callback", "none", "callback") >> ELSE << >>)

\* A mutant of addservices: the gate is registered after the hooks.
addservices_gatelast(service) ==
    forEach(service.before, "before")
        \o (IF service.callback
            THEN << Handler("callback", "none", "callback") >> ELSE << >>)
        \o forEach(service.after, "after")
        \o authenticate(service)

\* The stack addservices registers for /name/key.
addservices(service) ==
    authenticate(service)
        \o forEach(service.before, "before")
        \o (IF service.callback
            THEN << Handler("callback", "none", "callback") >> ELSE << >>)
        \o forEach(service.after, "after")


(***************************************************************************)
(* The store behind the CRUD methods.  db is the collection in insertion   *)
(* order; a document has an identifier and one field.  The methods reach   *)
(* the collection through the model handle of the service's store.         *)
(***************************************************************************)
MaxDocs == 2             \* bound: documents in the collection at the start

Ids == {"a", "b", "c"}
Fs  == {"x", "y"}
Docs == [_id : Ids, f : Fs]

IdsOf(docs) == {docs[i]._id : i \in 1..Len(docs)}

\* JavaScript values of page and size: numbers are "#n", strings are "'s'".
Numbers == {"#-1", "#0", "#1", "#2"}

\* Number(v)
Number(v) ==
    CASE v \in Numbers -> v
      [] v = "'-1'" -> "#-1"
      [] v = "'0'"  -> "#0"
      [] v = "'1'"  -> "#1"
      [] v = "'2'"  -> "#2"
      [] v = "''"   -> "#0"
      [] OTHER      -> "NaN"

\* The integer a number token stands for.
Val(t) ==
    CASE t = "#-1" -> 0 - 1
      [] t = "#0"  -> 0
      [] t = "#1"  -> 1
      [] t = "#2"  -> 2

Min(a, b) == IF a < b THEN a ELSE b

\* Model.find(query): the documents whose fields equal the query's keys.
Matches(doc, query) ==
    /\ query._id \in {Absent, doc._id}
    /\ query.f \in {Absent, doc.f}
    /\ query.page = Absent
    /\ query.size = Absent

RECURSIVE find(_, _)
find(docs, query) ==
    IF docs = << >> THEN << >>
    ELSE (IF Matches(Head(docs), query) THEN << Head(docs) >> ELSE << >>)
         \o find(Tail(docs), query)

\* A mutant of SkipLimit: the limit is not applied.
SkipLimit_nolimit(docs, n, m) == SubSeq(docs, n + 1, Len(docs))

\* .skip(n).limit(m) of a result list
SkipLimit(docs, n, m) == SubSeq(docs, n + 1, Min(n + m, Len(docs)))

\* Service.read, up to its first await: page and size are coerced in place,
\* in the data object the handler also holds.
readCoerce(data) ==
    [data EXCEPT !.page = Number(data.page), !.size = Number(data.size)]

\* A mutant of read: page and size stay in the query.
read_keepspage(docs, data) ==
    IF /\ data.page \in Numbers /\ Val(data.page) > 0 - 1
       /\ data.size \in Numbers /\ Val(data.size) > 0
    THEN PagePayload(SkipLimit(find(docs, data),
                               Val(data.page) * Val(data.size),
                               Val(data.size)),
                     Len(find(docs, data)))
    ELSE ListPayload(find(docs, data))

\* Service.read: the payload it resolves with.
read(docs, data) ==
    LET query == [data EXCEPT !.page = Absent, !.size = Absent]
    IN  IF /\ data.page \in Numbers /\ Val(data.page) > 0 - 1
           /\ data.size \in Numbers /\ Val(data.size) > 0
        THEN PagePayload(SkipLimit(find(docs, query),
                                   Val(data.page) * Val(data.size),
                                   Val(data.size)),
                         Len(find(docs, query)))
        ELSE ListPayload(find(docs, query))

\* new Model(data).save(): the document saved, with a generated identifier
\* when the data has none.
NewDoc(docs, data) ==
    [_id |-> IF data._id # Absent THEN data._id
             ELSE CHOOSE id \in Ids : id \notin IdsOf(docs),
     f   |-> data.f]

\* save() is accepted when the field is given and the identifier is free.
Accepts(docs, data) ==
    /\ data.f \in Fs
    /\ data._id \notin IdsOf(docs)
    /\ IdsOf(docs) # Ids

\* A mutant of create: the request data is resolved, not the saved document.
create_echo(docs, data) ==
    [db |-> Append(docs, NewDoc(docs, data)),
     value |-> DocPayload([_id |-> data._id, f |-> data.f])]

\* Service.create: the collection after save() and the value resolved.
create(docs, data) ==
    [db |-> Append(docs, NewDoc(docs, data)),
     value |-> DocPayload(NewDoc(docs, data))]

\* The result object Model.updateOne resolves with: a write summary, never
\* a document, whether or not a document matched.
WriteResult == "[object WriteResult]"

\* Model.updateOne({_id: data._id}, {$set: data})
updateOne(docs, data) ==
    [db |-> [i \in 1..Len(docs) |->
                IF docs[i]._id = data._id /\ data.f \in Fs
                THEN [docs[i] EXCEPT !.f = data.f] ELSE docs[i]],
     value |-> WriteResult]

\* A mutant of findOneAndRemove: every document is removed.
findOneAndRemove_all(docs, data) ==
    [db |-> << >>,
     value |-> IF data._id \in IdsOf(docs) THEN "[object Document]" ELSE "null"]

\* Model.findOneAndRemove({_id: data._id}): the document removed, or null.
findOneAndRemove(docs, data) ==
    [db |-> SelectSeq(docs, LAMBDA d : d._id # data._id),
     value |-> IF data._id \in IdsOf(docs) THEN "[object Document]" ELSE "null"]

Methods == {"post", "get", "put", "delete"}

\* crud(): the handlers registered on /name, one per method, when the
\* constructor was given a store.
crud(method) ==
    IF properties.store THEN << Handler("crud", "none", method) >> ELSE << >>

\* properties.hooks missing: before() and after() register nothing.
NoHooks ==
    [before |-> [m \in Methods |-> << >>], after |-> [m \in Methods |-> << >>]]

\* Service.hooker(hooks): one handler on /name per function of the method's
\* list, in list order.
serviceHooker(list, hook) ==
    [i \in 1..Len(list) |-> Handler("service", hook, list[i])]

\* The handlers the Service constructor registers on /name for a method:
\* this.before(); if(properties.store) this.crud(); this.after().
Service(method) ==
    serviceHooker(properties.hooks.before[method], "before")
        \o crud(method)
        \o serviceHooker(properties.hooks.after[method], "after")

(***************************************************************************)
(* Requests.                                                               *)
(***************************************************************************)
Event(e, i, arg) == [e |-> e, i |-> i, arg |-> arg]

Idle ==
    [pc |-> "idle", route |-> "none", method |-> "none",
     body |-> NoData, query |-> NoData, data |-> NoData,
     idx |-> 0, log |-> << >>, resp |-> << >>,
     pre |-> << >>, post |-> << >>]

\* The handlers express matches for the request's method and path.
Stack(q) ==
    IF q.route = "sub" THEN addservices(value)
    ELSE IF q.route = "crud" THEN Service(q.method)
    ELSE << >>

Logged(q, e, arg) == [q EXCEPT !.log = Append(@, Event(e, q.idx, arg))]

\* Service.exit: response.status(options.status).send({message, payload, debug})
exit(q, payload, options) ==
    [q EXCEPT !.pc = "done",
              !.resp = Append(@, [status |-> options.status,
                                  message |-> options.message,
                                  payload |-> payload,
                                  debug |-> options.debug,
                                  by |-> q.idx,
                                  envelope |-> TRUE])]

NotFoundError == "constants.strings.not_found_error"
TooLargeError == "constants.strings.too_large_error"
EntityTooLarge == "entity.too.large"

ParseFailed == "entity.parse.failed"

\* The errors of the body parser, which carry their kind in error.type.
BodyErrors == {EntityTooLarge, ParseFailed}

\* error.type of an error object; thrown Errors and hook results carry none.
ErrorType(error) == IF error \in BodyErrors THEN error ELSE Absent

\* A mutant of the 404 responder: the request body is not returned.
notfound_nopayload(q) ==
    [q EXCEPT !.pc = "done", !.idx = 0,
              !.resp = Append(@, [status |-> 404,
                                  message |-> NotFoundError,
                                  payload |-> NoPayload,
                                  debug |-> NotFoundError,
                                  by |-> 0,
                                  envelope |-> TRUE])]

\* handlers.ts, first app.http.use: the 404 responder behind every route.
notfound(q) ==
    [q EXCEPT !.pc = "done", !.idx = 0,
              !.resp = Append(@, [status |-> 404,
                                  message |-> NotFoundError,
                                  payload |-> BodyPayload(q.body),
                                  debug |-> NotFoundError,
                                  by |-> 0,
                                  envelope |-> TRUE])]

\* A mutant of the error-handling stage: every error is answered with 413.
toolarge_any(q, error) ==
    [q EXCEPT !.pc = "done", !.idx = 0,
              !.resp = Append(@, [status |-> 413,
                                  message |-> TooLargeError,
                                  payload |-> BodyPayload(q.body),
                                  debug |-> error,
                                  by |-> 0,
                                  envelope |-> TRUE])]

\* handlers.ts, second app.http.use: the error-handling stage.  Any error
\* other than entity.too.large is thrown again and answered by the
\* framework's own error page, which is no Response Envelope.
toolarge(q, error) ==
    IF ErrorType(error) = EntityTooLarge
    THEN [q EXCEPT !.pc = "done", !.idx = 0,
                   !.resp = Append(@, [status |-> 413,
                                       message |-> TooLargeError,
                                       payload |-> BodyPayload(q.body),
                                       debug |-> error,
                                       by |-> 0,
                                       envelope |-> TRUE])]
    ELSE [q EXCEPT !.pc = "done", !.idx = 0,
                   !.log = Append(@, Event("rethrow", 0, error)),
                   !.resp = Append(@, [status |-> 500,
                                       message |-> Absent,
                                       payload |-> NoPayload,
                                       debug |-> error,
                                       by |-> 0,
                                       envelope |-> FALSE])]

\* A mutant of the call of a handler: a timeout answers the request while
\* the handler's promise is still pending.
invoke_timeout(q, i, throws) ==
    LET h  == Stack(q)[i]
        d  == Merge(q.body, q.query)
        q1 == [q EXCEPT !.idx = i,
                        !.data = IF h.kind = "crud" /\ h.fn = "get"
                                 THEN readCoerce(d) ELSE d,
                        !.log = Append(@, Event("invoke", i, Absent))]
    IN  IF throws
        THEN toolarge(Logged(q1, "throw", HookError), HookError)
        ELSE [q1 EXCEPT !.pc = "pending",
                        !.resp = Append(@, [status |-> 503,
                                            message |-> Absent,
                                            payload |-> NoPayload,
                                            debug |-> Absent,
                                            by |-> 0,
                                            envelope |-> FALSE])]

\* A mutant of the call of a handler: the value the previous stage passed to
\* next becomes a field of the handler's data.
invoke_threaded(q, i, throws) ==
    LET h  == Stack(q)[i]
        d  == Merge(q.body, q.query)
        t  == IF q.log # << >> /\ q.log[Len(q.log)].e = "next"
              THEN [d EXCEPT !.f = q.log[Len(q.log)].arg] ELSE d
        q1 == [q EXCEPT !.idx = i,
                        !.data = IF h.kind = "crud" /\ h.fn = "get"
                                 THEN readCoerce(t) ELSE t,
                        !.log = Append(@, Event("invoke", i, Absent))]
    IN  IF throws
        THEN toolarge(Logged(q1, "throw", HookError), HookError)
        ELSE [q1 EXCEPT !.pc = "pending"]

\* The framework calls handler i; the handler builds its data object and
\* calls its function.  A call that throws before returning a promise is not
\* inside the handler's promise chain: the exception leaves the handler and
\* the framework passes it to the error-handling stage.
invoke(q, i, throws) ==
    LET h  == Stack(q)[i]
        d  == Merge(q.body, q.query)
        q1 == [q EXCEPT !.idx = i,
                        !.data = IF h.kind = "crud" /\ h.fn = "get"
                                 THEN readCoerce(d) ELSE d,
                        !.log = Append(@, Event("invoke", i, Absent))]
    IN  IF throws
        THEN toolarge(Logged(q1, "throw", HookError), HookError)
        ELSE [q1 EXCEPT !.pc = "pending"]

\* The framework's next(arg) as the handlers call it: a truthy argument is an
\* error and skips every remaining route handler; otherwise the following
\* handler of the stack runs, and behind the last one the 404 responder.
next(q, arg, throws) ==
    LET q1 == Logged(q, "next", arg)
    IN  IF Truthy(arg) THEN toolarge(q1, arg)
        ELSE IF q.idx < Len(Stack(q)) THEN invoke(q1, q.idx + 1, throws)
        ELSE notfound(q1)

\* The framework receives a request and runs the first matching handler.
handle(q, throws) ==
    IF Len(Stack(q)) > 0 THEN invoke(q, 1, throws) ELSE notfound(q)

(***************************************************************************)
(* The handlers addservices registers.                                     *)
(***************************************************************************)
\* Service.authenticate, .catch branch
authenticateCatch(q, message) ==
    exit(q, DataPayload(q.data),
         [message |-> AuthError, status |-> 412, debug |-> message])

\* Service.authenticate, .then branch
authenticateThen(q, v, throws) ==
    IF ~Truthy(v) THEN authenticateCatch(q, AuthError)
    ELSE next(q, Absent, throws)

\* A mutant of the hooker's catch: the payload is dropped.
hookerCatch_nopayload(q, message) ==
    exit(q, NoPayload,
         [message |-> value.error, status |-> 422, debug |-> message])

\* A mutant of the hooker's catch: data is one object shared by all requests.
hookerCatch_shared(q, message) ==
    exit(q, DataPayload(requests[1].data),
         [message |-> value.error, status |-> 422, debug |-> message])

\* A mutant of the hooker's catch: after the error envelope the handler
\* forwards to the following handler.
hookerCatch_forwards(q, message) ==
    next(exit(q, DataPayload(q.data),
              [message |-> value.error, status |-> 422, debug |-> message]),
         Absent, FALSE)

\* hooker handler of addservices, .catch branch
hookerCatch(q, message) ==
    exit(q, DataPayload(q.data),
         [message |-> value.error, status |-> 422, debug |-> message])

\* hooker handler of addservices, .then branch
hookerThen(q, result, throws) ==
    LET h == Stack(q)[q.idx]
    IN  IF h.hook = "before" THEN next(q, result, throws)
        ELSE IF IndexOf(value.after, h.fn) = Len(value.after)
             THEN exit(q, ResultPayload(result),
                       [message |-> value.message, status |-> 200,
                        debug |-> Absent])
             ELSE next(q, result, throws)

\* callback handler of addservices, .catch branch
callbackCatch(q, message) ==
    exit(q, DataPayload(q.data),
         [message |-> value.error, status |-> 422, debug |-> message])

\* callback handler of addservices, .then branch
callbackThen(q, result, throws) ==
    IF ~value.hasAfter
    THEN exit(q, ResultPayload(result),
              [message |-> value.message, status |-> 200, debug |-> Absent])
    ELSE next(q, result, throws)

(***************************************************************************)
(* Actions of the sub-route pipeline.                                      *)
(***************************************************************************)
SubBodies  == {[NoData EXCEPT !.f = v] : v \in {Absent, "x"}}
SubQueries == {[NoData EXCEPT !.f = v] : v \in {Absent, "y"}}

Running(r, kind) ==
    /\ requests[r].pc = "pending"
    /\ requests[r].route = "sub"
    /\ Stack(requests[r])[requests[r].idx].kind = kind

\* A request to /name/key arrives.
Request(r) ==
    /\ r \in todo
    /\ todo' = todo \ {r}
    /\ \E body \in SubBodies, query \in SubQueries, throws \in BOOLEAN :
         requests' = [requests EXCEPT ![r] =
             handle([Idle EXCEPT !.route = "sub", !.method = value.method,
                                 !.body = body, !.query = query], throws)]
    /\ UNCHANGED <<value, properties, db, store, call>>

AuthenticateThen(r) ==
    /\ Running(r, "authenticate")
    /\ \E v \in Results, throws \in BOOLEAN :
         requests' = [requests EXCEPT ![r] =
             authenticateThen(Logged(@, "resolve", v), v, throws)]
    /\ UNCHANGED <<value, properties, db, todo, store, call>>

AuthenticateCatch(r) ==
    /\ Running(r, "authenticate")
    /\ requests' = [requests EXCEPT ![r] =
             authenticateCatch(Logged(@, "reject", HookError), HookError)]
    /\ UNCHANGED <<value, properties, db, todo, store, call>>

HookerThen(r) ==
    /\ Running(r, "hooker")
    /\ \E result \in Results, throws \in BOOLEAN :
         requests' = [requests EXCEPT ![r] =
             hookerThen(Logged(@, "resolve", result), result, throws)]
    /\ UNCHANGED <<value, properties, db, todo, store, call>>

HookerCatch(r) ==
    /\ Running(r, "hooker")
    /\ requests' = [requests EXCEPT ![r] =
             hookerCatch(Logged(@, "reject", HookError), HookError)]
    /\ UNCHANGED <<value, properties, db, todo, store, call>>

CallbackThen(r) ==
    /\ Running(r, "callback")
    /\ \E result \in Results, throws \in BOOLEAN :
         requests' = [requests EXCEPT ![r] =
             callbackThen(Logged(@, "resolve", result), result, throws)]
    /\ UNCHANGED <<value, properties, db, todo, store, call>>

CallbackCatch(r) ==
    /\ Running(r, "callback")
    /\ requests' = [requests EXCEPT ![r] =
             callbackCatch(Logged(@, "reject", HookError), HookError)]
    /\ UNCHANGED <<value, properties, db, todo, store, call>>

(***************************************************************************)
(* The CRUD methods and the handlers crud() registers on /name.            *)
(***************************************************************************)
OrmError      == "orm failed"
UpdateMissing == "Oops, <name> does not exist!"
DeleteMissing == "Oops, could not remove <name>"

\* Service.update: updateOne, then the check of what it resolved with.
update(docs, data) ==
    LET r == updateOne(docs, data)
    IN  [db |-> r.db, ok |-> Truthy(r.value),
         value |-> DataPayload(data), error |-> UpdateMissing]

\* Service.delete: findOneAndRemove, then the check of what it resolved with.
delete(docs, data) ==
    LET r == findOneAndRemove(docs, data)
    IN  [db |-> r.db, ok |-> Truthy(r.value),
         value |-> DataPayload(data), error |-> DeleteMissing]

\* The status codes and messages of the four handlers.
Success(method) ==
    CASE method = "post"   -> [status |-> 201, debug |-> Absent,
                               message |-> "Hi, an <name> has been created!"]
      [] method = "get"    -> [status |-> 200, debug |-> Absent,
                               message |-> "Hi, a data payload is provided!"]
      [] method = "put"    -> [status |-> 200, debug |-> Absent,
                               message |-> "Hi, an <name> has been updated!"]
      [] method = "delete" -> [status |-> 200, debug |-> Absent,
                               message |-> "Hi, an <name> has been removed!"]

Failure(method, message) ==
    CASE method = "post"   -> [status |-> 422, debug |-> message,
                               message |-> "Oops, could not create <name>!"]
      [] method = "get"    -> [status |-> 404, debug |-> message,
                               message |-> "Oops, could not find <name> list!"]
      [] method = "put"    -> [status |-> 413, debug |-> message,
                               message |-> "Oops, could not update <name>!"]
      [] method = "delete" -> [status |-> 422, debug |-> message,
                               message |-> "Oops, could not remove <name>!"]

\* .catch branch of a CRUD handler
crudCatch(q, message) ==
    exit(q, DataPayload(q.data), Failure(q.method, message))

\* .then branch of a CRUD handler
crudThen(q, payload) ==
    exit(q, payload, Success(q.method))

CrudBodies(method) ==
    {[_id |-> id, f |-> f, page |-> p, size |-> z] :
        id \in {Absent, "a", "b"}, f \in {Absent, "x"},
        p \in IF method = "get" THEN {Absent, "#0", "#1"} ELSE {Absent},
        z \in IF method = "get" THEN {Absent, "#1"} ELSE {Absent}}

CrudQueries(method) ==
    {[_id |-> Absent, f |-> f, page |-> p, size |-> z] :
        f \in {Absent, "y"},
        p \in IF method = "get" THEN {Absent, "'1'", "'x'", "'-1'", "''"}
                                ELSE {Absent},
        z \in IF method = "get" THEN {Absent, "'2'", "'0'"} ELSE {Absent}}

RunningCrud(r, method) ==
    /\ requests[r].pc = "pending"
    /\ requests[r].route = "crud"
    /\ requests[r].method = method
    /\ Stack(requests[r])[requests[r].idx].kind = "crud"

Done(r, q, docs) ==
    /\ requests' = [requests EXCEPT ![r] = [q EXCEPT !.pre = db, !.post = docs]]
    /\ db' = docs
    /\ UNCHANGED <<value, properties, todo, store, call>>

\* A request to /name arrives.
CrudRequest(r) ==
    /\ r \in todo
    /\ todo' = todo \ {r}
    /\ \E method \in Methods :
       \E body \in CrudBodies(method), query \in CrudQueries(method) :
         requests' = [requests EXCEPT ![r] =
             handle([Idle EXCEPT !.route = "crud", !.method = method,
                                 !.body = body, !.query = query], FALSE)]
    /\ UNCHANGED <<value, properties, db, store, call>>

\* POST /name: save() accepts the document.
PostThen(r) ==
    /\ RunningCrud(r, "post")
    /\ Accepts(db, requests[r].data)
    /\ LET c == create(db, requests[r].data)
       IN  Done(r, crudThen(Logged(requests[r], "resolve", Absent), c.value), c.db)

\* POST /name: save() rejects.
PostCatch(r) ==
    /\ RunningCrud(r, "post")
    /\ Done(r, crudCatch(Logged(requests[r], "reject", OrmError), OrmError), db)

\* GET /name: the queries of read() resolve.
GetThen(r) ==
    /\ RunningCrud(r, "get")
    /\ Done(r, crudThen(Logged(requests[r], "resolve", Absent),
                        read(db, requests[r].data)), db)

\* GET /name: a query of read() rejects.
GetCatch(r) ==
    /\ RunningCrud(r, "get")
    /\ Done(r, crudCatch(Logged(requests[r], "reject", OrmError), OrmError), db)

\* PUT /name: updateOne resolves.
PutThen(r) ==
    /\ RunningCrud(r, "put")
    /\ LET u == update(db, requests[r].data)
       IN  Done(r, IF u.ok
                   THEN crudThen(Logged(requests[r], "resolve", Absent), u.value)
                   ELSE crudCatch(Logged(requests[r], "reject", u.error), u.error),
                u.db)

\* PUT /name: updateOne rejects.
PutCatch(r) ==
    /\ RunningCrud(r, "put")
    /\ Done(r, crudCatch(Logged(requests[r], "reject", OrmError), OrmError), db)

\* DELETE /name: findOneAndRemove resolves.
DeleteThen(r) ==
    /\ RunningCrud(r, "delete")
    /\ LET u == delete(db, requests[r].data)
       IN  Done(r, IF u.ok
                   THEN crudThen(Logged(requests[r], "resolve", Absent), u.value)
                   ELSE crudCatch(Logged(requests[r], "reject", u.error), u.error),
                u.db)

\* DELETE /name: findOneAndRemove rejects.
DeleteCatch(r) ==
    /\ RunningCrud(r, "delete")
    /\ Done(r, crudCatch(Logged(requests[r], "reject", OrmError), OrmError), db)

(***************************************************************************)
(* Service-level hooks: the handlers of Service.hooker on /name.           *)
(***************************************************************************)
ServiceError == "Oops, a service error occurred!"

\* Service.hooker handler, .then branch: exit(response, data, {status: 201})
serviceThen(q) ==
    exit(q, DataPayload(q.data),
         [message |-> Absent, status |-> 201, debug |-> Absent])

\* Service.hooker handler, .catch branch
serviceCatch(q, message) ==
    exit(q, DataPayload(q.data),
         [message |-> ServiceError, status |-> 422, debug |-> message])

ServiceBodies == {NoData, [NoData EXCEPT !._id = "a", !.f = "x"]}

RunningService(r) ==
    /\ requests[r].pc = "pending"
    /\ requests[r].route = "crud"
    /\ Stack(requests[r])[requests[r].idx].kind = "service"

\* A request to /name of a service with service-level hooks.  Only a hook
\* function can throw when it is called.
ServiceRequest(r) ==
    /\ r \in todo
    /\ todo' = todo \ {r}
    /\ \E method \in Methods, body \in ServiceBodies, throws \in BOOLEAN :
         LET q == [Idle EXCEPT !.route = "crud", !.method = method,
                               !.body = body]
         IN  /\ throws => (Stack(q) # << >> /\ Stack(q)[1].kind = "service")
             /\ requests' = [requests EXCEPT ![r] = handle(q, throws)]
    /\ UNCHANGED <<value, properties, db, store, call>>

ServiceThen(r) ==
    /\ RunningService(r)
    /\ \E result \in Results :
         requests' = [requests EXCEPT ![r] =
             serviceThen(Logged(@, "resolve", result))]
    /\ UNCHANGED <<value, properties, db, todo, store, call>>

ServiceCatch(r) ==
    /\ RunningService(r)
    /\ requests' = [requests EXCEPT ![r] =
             serviceCatch(Logged(@, "reject", HookError), HookError)]
    /\ UNCHANGED <<value, properties, db, todo, store, call>>

(***************************************************************************)
(* Requests that no route answers.                                         *)
(***************************************************************************)
Routes == {"sub", "crud", "none"}

\* A request whose path and method match no registered route.
Unmatched(r) ==
    /\ r \in todo
    /\ todo' = todo \ {r}
    /\ \E method \in Methods, body \in SubBodies, query \in SubQueries :
         requests' = [requests EXCEPT ![r] =
             handle([Idle EXCEPT !.route = "none", !.method = method,
                                 !.body = body, !.query = query], FALSE)]
    /\ UNCHANGED <<value, properties, db, store, call>>

\* The body parser in front of the routes refuses the body of a request and
\* hands its error to the error-handling stage; request.body stays empty.
BodyError(r) ==
    /\ r \in todo
    /\ todo' = todo \ {r}
    /\ \E route \in Routes, query \in SubQueries, error \in BodyErrors :
       \E method \in IF route = "sub" THEN {value.method} ELSE Methods :
         requests' = [requests EXCEPT ![r] =
             toolarge(Logged([Idle EXCEPT !.route = route, !.method = method,
                                          !.query = query], "raise", error),
                      error)]
    /\ UNCHANGED <<value, properties, db, store, call>>

(***************************************************************************)
(* Store: the constructor and the cache its schema hooks maintain.         *)
(***************************************************************************)
MaxCount == 3

\* Store.cache as the field initialiser leaves it: no record under any id.
NoCache == [count |-> 0, data |-> [id \in Ids |-> Absent]]

\* The object when the constructor body starts: pc is the position of the
\* next statement, storage tells whether the model handle exists.
NewStore ==
    [pc |-> 1, failed |-> FALSE, steps |-> << >>, hooked |-> FALSE,
     storage |-> FALSE, cache |-> NoCache]

\* A mutant of the constructor: the schema is compiled before onmodel runs.
constructor_modelfirst == <<"hooks", "model", "onmodel", "oninit", "onready">>

\* The statements of the constructor body, in program order.
constructor == <<"hooks", "onmodel", "model", "oninit", "onready">>

\* The extension points a subclass supplies; their bodies may throw.
ExtensionPoints == {"onmodel", "oninit", "onready"}

\* One statement of the constructor runs on store s.  An exception of an
\* extension point leaves the constructor.
step(s, name, throws) ==
    LET s1 == [s EXCEPT !.steps = Append(@, [step |-> name,
                                               storage |-> s.storage]),
                        !.pc = @ + 1]
    IN  IF name = "hooks" THEN [s1 EXCEPT !.hooked = TRUE]
        ELSE IF name = "model" THEN [s1 EXCEPT !.storage = TRUE]
        ELSE IF throws THEN [s1 EXCEPT !.failed = TRUE]
        ELSE s1

\* schema.post('save'), schema.post('update'), schema.post('remove')
postSave(cache, doc) ==
    [cache EXCEPT !.data[doc._id] = doc.f, !.count = @ + 1]
postUpdate(cache, doc) == [cache EXCEPT !.data[doc._id] = doc.f]
postRemove(cache, doc) == [cache EXCEPT !.data[doc._id] = Absent]

Constructing == store.pc <= Len(constructor) /\ ~store.failed

\* The constructor runs its next statement.
Construct ==
    /\ Constructing
    /\ \E throws \in BOOLEAN :
         /\ throws => constructor[store.pc] \in ExtensionPoints
         /\ store' = step(store, constructor[store.pc], throws)
    /\ UNCHANGED <<value, properties, db, todo, requests, call>>

\* The hooks run once they are registered, the schema is compiled and the
\* constructor has returned.
Hooked == store.hooked /\ store.storage /\ ~Constructing

PostSave ==
    /\ Hooked
    /\ store.cache.count < MaxCount
    /\ \E doc \in Docs : store' = [store EXCEPT !.cache = postSave(@, doc)]
    /\ UNCHANGED <<value, properties, db, todo, requests, call>>

PostUpdate ==
    /\ Hooked
    /\ \E doc \in Docs : store' = [store EXCEPT !.cache = postUpdate(@, doc)]
    /\ UNCHANGED <<value, properties, db, todo, requests, call>>

PostRemove ==
    /\ Hooked
    /\ \E doc \in Docs : store' = [store EXCEPT !.cache = postRemove(@, doc)]
    /\ UNCHANGED <<value, properties, db, todo, requests, call>>

(***************************************************************************)
(* User.authorize(data) over the records of the user store.                *)
(***************************************************************************)
UsernameRequired == "Oops, username is required!"
Incorrect        == "Oops, username or password is incorrect!"

Usernames == {"'u'", "'v'"}
Passwords == {"'p'", "'q'"}
Users     == [_id : {"a", "b"}, username : Usernames, password : Passwords]

UserCollections ==
    {c \in SeqsUpTo(Users, MaxDocs) :
        \A i, j \in 1..Len(c) : i # j => c[i]._id # c[j]._id}

\* The data objects authorize is called with; "''" is the empty string.
Credentials ==
    [username : Usernames \cup {Absent, "''"},
     password : Passwords \cup {Absent}]

\* How a call ends: it throws, or its promise resolves or rejects; value
\* holds the returned record, if any.
Outcome(kind, error, val) == [kind |-> kind, error |-> error, value |-> val]

NoCall ==
    [pc |-> "idle", data |-> [username |-> Absent, password |-> Absent],
     lookups |-> 0, settled |-> "none", out |-> Outcome("none", Absent, << >>)]

\* A mutant of the lookup: the password is not part of the filter.
findOne_username(docs, query) ==
    LET hits == SelectSeq(docs, LAMBDA u : u.username = query.username)
    IN  IF hits = << >> THEN << >> ELSE <<hits[1]>>

\* storage.findOne({username, password}): the first record that matches both
\* fields as <<record>>, or << >> for null.
findOne(docs, query) ==
    LET hits == SelectSeq(docs, LAMBDA u : /\ u.username = query.username
                                           /\ u.password = query.password)
    IN  IF hits = << >> THEN << >> ELSE <<hits[1]>>

\* User.authorize up to the point where it returns the promise of findOne.
authorize(c, data) ==
    IF ~Truthy(data.username)
    THEN [c EXCEPT !.pc = "done", !.data = data,
                   !.out = Outcome("throw", UsernameRequired, << >>)]
    ELSE [c EXCEPT !.pc = "pending", !.data = data, !.lookups = @ + 1]

\* The .then of authorize on the result of findOne.
authorizeThen(c, found) ==
    [c EXCEPT !.pc = "done", !.settled = "resolved",
              !.out = IF found = << >>
                      THEN Outcome("reject", Incorrect, << >>)
                      ELSE Outcome("resolve", Absent, found)]

\* findOne rejects: authorize has no catch, its promise rejects alike.
authorizeCatch(c, error) ==
    [c EXCEPT !.pc = "done", !.settled = "rejected",
              !.out = Outcome("reject", error, << >>)]

Authorize ==
    /\ call.pc = "idle"
    /\ \E data \in Credentials : call' = authorize(call, data)
    /\ UNCHANGED <<value, properties, db, todo, requests, store>>

AuthorizeThen ==
    /\ call.pc = "pending"
    /\ call' = authorizeThen(call, findOne(db, call.data))
    /\ UNCHANGED <<value, properties, db, todo, requests, store>>

AuthorizeCatch ==
    /\ call.pc = "pending"
    /\ call' = authorizeCatch(call, OrmError)
    /\ UNCHANGED <<value, properties, db, todo, requests, store>>

\* Collections of at most MaxDocs documents with distinct identifiers.
Collections ==
    {c \in SeqsUpTo(Docs, MaxDocs) :
        \A i, j \in 1..Len(c) : i # j => c[i]._id # c[j]._id}

\* The descriptors addservices can be given: hooks.after is either missing
\* (hasAfter = FALSE) or a list, which may be empty and may repeat a hook.
Descriptor(a, b, c, ha, af) ==
    [method |-> "post", message |-> "value.message", error |-> "value.error",
     authenticate |-> a, before |-> b, callback |-> c,
     hasAfter |-> ha, after |-> af]

Descriptors ==
    {Descriptor(a, b, c, FALSE, << >>) :
        a \in BOOLEAN, b \in SeqsUpTo(Hooks, MaxHooks), c \in BOOLEAN}
    \cup
    {Descriptor(a, b, c, TRUE, af) :
        a \in BOOLEAN, b \in SeqsUpTo(Hooks, MaxHooks), c \in BOOLEAN,
        af \in SeqsUpTo(Hooks, MaxHooks)}

\* After construction: one descriptor registered, one request to come.
Init ==
    /\ value \in Descriptors
    /\ properties = [store |-> FALSE, hooks |-> NoHooks]
    /\ db = << >>
    /\ todo = {1}
    /\ requests = [r \in Reqs |-> Idle]
    /\ store = NewStore
    /\ call = NoCall

Next ==
    \E r \in Reqs :
        \/ Request(r)
        \/ AuthenticateThen(r)
        \/ AuthenticateCatch(r)
        \/ HookerThen(r)
        \/ HookerCatch(r)
        \/ CallbackThen(r)
        \/ CallbackCatch(r)

Spec == Init /\ [][Next]_vars

\* A service constructed with a store: the CRUD routes of /name.
InitCrud ==
    /\ value = Descriptor(FALSE, << >>, TRUE, FALSE, << >>)
    /\ properties = [store |-> TRUE, hooks |-> NoHooks]
    /\ db \in Collections
    /\ todo = {1}
    /\ requests = [r \in Reqs |-> Idle]
    /\ store = NewStore
    /\ call = NoCall

NextCrud ==
    \E r \in Reqs :
        \/ CrudRequest(r)
        \/ PostThen(r)
        \/ PostCatch(r)
        \/ GetThen(r)
        \/ GetCatch(r)
        \/ PutThen(r)
        \/ PutCatch(r)
        \/ DeleteThen(r)
        \/ DeleteCatch(r)

SpecCrud == InitCrud /\ [][NextCrud]_vars

\* A service with a store and one sub-route behind the body parser and in
\* front of the two fallback handlers.
FallbackDescriptors ==
    {d \in Descriptors : Len(d.before) <= 1 /\ Len(d.after) <= 1}

InitFallback ==
    /\ value \in FallbackDescriptors
    /\ properties = [store |-> TRUE, hooks |-> NoHooks]
    /\ db = <<[_id |-> "a", f |-> "x"]>>
    /\ todo = {1}
    /\ requests = [r \in Reqs |-> Idle]
    /\ store = NewStore
    /\ call = NoCall

NextFallback ==
    \/ Next
    \/ NextCrud
    \/ \E r \in Reqs :
        \/ Unmatched(r)
        \/ BodyError(r)

SpecFallback == InitFallback /\ [][NextFallback]_vars

\* Two requests to one sub-route are in flight together; their stages settle
\* in any order.
InitConc ==
    /\ value \in FallbackDescriptors
    /\ properties = [store |-> FALSE, hooks |-> NoHooks]
    /\ db = << >>
    /\ todo = {1, 2}
    /\ requests = [r \in Reqs |-> Idle]
    /\ store = NewStore
    /\ call = NoCall

SpecConc == InitConc /\ [][Next]_vars

\* A service constructed with service-level hooks, with or without a store.
BeforeLists == {<< >>, <<"h1">>, <<"h1", "h2">>}
AfterLists  == {<< >>, <<"h1">>}

ServiceHooks ==
    [before : [Methods -> BeforeLists], after : [Methods -> AfterLists]]

InitService ==
    /\ value = Descriptor(FALSE, << >>, TRUE, FALSE, << >>)
    /\ \E st \in BOOLEAN, hs \in ServiceHooks :
         properties = [store |-> st, hooks |-> hs]
    /\ db = << >>
    /\ todo = {1}
    /\ requests = [r \in Reqs |-> Idle]
    /\ store = NewStore
    /\ call = NoCall

NextService ==
    \E r \in Reqs :
        \/ ServiceRequest(r)
        \/ ServiceThen(r)
        \/ ServiceCatch(r)
        \/ PostThen(r)
        \/ PostCatch(r)
        \/ GetThen(r)
        \/ GetCatch(r)
        \/ PutThen(r)
        \/ PutCatch(r)
        \/ DeleteThen(r)
        \/ DeleteCatch(r)

SpecService == InitService /\ [][NextService]_vars

\* A Store is constructed; afterwards its schema hooks fire.
InitStore ==
    /\ value = Descriptor(FALSE, << >>, TRUE, FALSE, << >>)
    /\ properties = [store |-> TRUE, hooks |-> NoHooks]
    /\ db = << >>
    /\ todo = {}
    /\ requests = [r \in Reqs |-> Idle]
    /\ store = NewStore
    /\ call = NoCall

NextStore ==
    \/ Construct
    \/ PostSave
    \/ PostUpdate
    \/ PostRemove

SpecStore == InitStore /\ [][NextStore]_vars

\* authorize is called once on a user store holding any collection.
InitAuthorize ==
    /\ value = Descriptor(FALSE, << >>, TRUE, FALSE, << >>)
    /\ properties = [store |-> TRUE, hooks |-> NoHooks]
    /\ db \in UserCollections
    /\ todo = {}
    /\ requests = [r \in Reqs |-> Idle]
    /\ store = NewStore
    /\ call = NoCall

NextAuthorize ==
    \/ Authorize
    \/ AuthorizeThen
    \/ AuthorizeCatch

SpecAuthorize == InitAuthorize /\ [][NextAuthorize]_vars


(***************************************************************************)
(* Properties of the sub-route pipeline, checked under Spec.               *)
(***************************************************************************)
Sub(r) == requests[r].route = "sub"

Responded(q, i) == \E k \in DOMAIN q.resp : q.resp[k].by = i
Forwarded(q, i) == \E p \in DOMAIN q.log : q.log[p].e = "next" /\ q.log[p].i = i
Invoked(q) == SelectSeq(q.log, LAMBDA ev : ev.e = "invoke")

\* The terminal stage of the chain: the last after-hook, or the callback when
\* the descriptor lists no after-hook.
Terminal(i) ==
    LET S == addservices(value)
    IN  /\ i = Len(S)
        /\ \/ S[i].kind = "hooker" /\ S[i].hook = "after"
           \/ S[i].kind = "callback" /\ Len(value.after) = 0

\* C1: a request to a sub-route with a callback gets exactly one Response
\* Envelope over its whole run; the envelope is sent by the terminal stage
\* (status 200) or by a failing stage (412, 422), and no stage both responds
\* and forwards.
C1ExactlyOneEnvelope ==
    \A r \in Reqs :
        LET q == requests[r]
        IN  (Sub(r) /\ value.callback) =>
              /\ q.pc = "done" => (Len(q.resp) = 1 /\ q.resp[1].envelope)
              /\ \A k \in DOMAIN q.resp :
                    /\ q.resp[k].by >= 1
                    /\ \/ q.resp[k].status = 200 /\ Terminal(q.resp[k].by)
                       \/ q.resp[k].status \in {412, 422}
              /\ \A i \in 1..Len(addservices(value)) :
                    ~(Responded(q, i) /\ Forwarded(q, i))

\* C2: the authentication gate is the first handler of the chain; when
\* authenticate() resolves falsy or rejects the only response is the 412
\* error envelope and no hook or callback is invoked; when it succeeds the
\* gate sends nothing and calls next() without a payload.
C2AuthenticationGate ==
    \A r \in Reqs :
        LET q == requests[r]
            S == addservices(value)
        IN  (Sub(r) /\ value.authenticate) =>
              /\ S[1].kind = "authenticate"
              /\ \A i \in 2..Len(S) : S[i].kind # "authenticate"
              /\ \A p \in DOMAIN q.log :
                    (q.log[p].i >= 1 /\ S[q.log[p].i].kind = "authenticate") =>
                      /\ (\/ q.log[p].e = "reject"
                          \/ q.log[p].e = "resolve" /\ ~Truthy(q.log[p].arg)) =>
                            /\ Len(q.resp) = 1
                            /\ q.resp[1].status = 412
                            /\ q.resp[1].envelope
                            /\ q.resp[1].message = AuthError
                            /\ q.resp[1].by = 1
                            /\ Len(Invoked(q)) = 1
                      /\ (q.log[p].e = "resolve" /\ Truthy(q.log[p].arg)) =>
                            /\ ~Responded(q, 1)
                            /\ q.log[p + 1] = Event("next", 1, Absent)

\* C2 witness: the gate refused a request whose chain has hooks and a callback.
C2GateRefused ==
    \E r \in Reqs :
        /\ Sub(r) /\ value.authenticate /\ value.callback
        /\ Len(value.before) > 0 /\ Len(value.after) > 0
        /\ Len(requests[r].resp) = 1
        /\ requests[r].resp[1].status = 412

\* Position of stack index i in the after list.
AfterPos(i) == i - (Len(addservices(value)) - Len(value.after))

\* C3: when the after-hook at position i of n resolves, its handler sends the
\* status-200 envelope if and only if i = n; for i < n it sends nothing and
\* forwards with next(result).  Lists may repeat a hook function.
C3LastAfterHookResponds ==
    \A r \in Reqs :
        LET q == requests[r]
            S == addservices(value)
        IN  Sub(r) =>
              \A p \in DOMAIN q.log :
                LET i == q.log[p].i
                IN  (/\ q.log[p].e = "resolve" /\ i >= 1
                     /\ S[i].kind = "hooker" /\ S[i].hook = "after") =>
                      /\ (AfterPos(i) = Len(value.after)) <=>
                            (\E k \in DOMAIN q.resp :
                                q.resp[k].by = i /\ q.resp[k].status = 200)
                      /\ AfterPos(i) < Len(value.after) =>
                            /\ ~Responded(q, i)
                            /\ q.log[p + 1] = Event("next", i, q.log[p].arg)

\* The chain in the order the stages are to run.
Expected ==
    (IF value.authenticate
     THEN << Handler("authenticate", "none", "authenticate") >> ELSE << >>)
    \o [i \in 1..Len(value.before) |-> Handler("hooker", "before", value.before[i])]
    \o (IF value.callback THEN << Handler("callback", "none", "callback") >>
        ELSE << >>)
    \o [i \in 1..Len(value.after) |-> Handler("hooker", "after", value.after[i])]

\* C4: the k-th stage invoked for a request is the k-th of gate, before-hooks
\* in list order, callback, after-hooks in list order; and a stage is invoked
\* only right after the previous stage resolved and forwarded.
C4StageOrder ==
    \A r \in Reqs :
        LET q == requests[r]
            S == addservices(value)
        IN  Sub(r) =>
              /\ \A k \in DOMAIN Invoked(q) :
                    /\ k <= Len(Expected)
                    /\ S[Invoked(q)[k].i] = Expected[k]
              /\ \A p \in DOMAIN q.log :
                    (q.log[p].e = "invoke" /\ q.log[p].i > 1) =>
                      /\ p > 2
                      /\ q.log[p - 1].e = "next"
                      /\ q.log[p - 1].i = q.log[p].i - 1
                      /\ q.log[p - 2].e = "resolve"
                      /\ q.log[p - 2].i = q.log[p].i - 1

\* C4 witness: a chain with gate, two before-hooks, callback and two
\* after-hooks ran to its last stage.
C4FullChainRan ==
    \E r \in Reqs :
        /\ Sub(r) /\ value.authenticate /\ value.callback
        /\ Len(value.before) >= 2 /\ Len(value.after) >= 2
        /\ Len(Invoked(requests[r])) = Len(addservices(value))

\* C5: when a before-hook, the callback or an after-hook rejects, the request
\* is answered with status 422, the descriptor's error message, the merged
\* body+query data as payload and the error's message as debug.
C5RejectionEnvelope ==
    \A r \in Reqs :
        LET q == requests[r]
            S == addservices(value)
        IN  Sub(r) =>
              \A p \in DOMAIN q.log :
                (/\ q.log[p].e = "reject" /\ q.log[p].i >= 1
                 /\ S[q.log[p].i].kind \in {"hooker", "callback"}) =>
                    q.resp = << [status |-> 422,
                                 message |-> value.error,
                                 payload |-> DataPayload(Merge(q.body, q.query)),
                                 debug |-> q.log[p].arg,
                                 by |-> q.log[p].i,
                                 envelope |-> TRUE] >>

\* C5 witness: an after-hook rejected a request that has body and query data.
C5AfterHookRejected ==
    \E r \in Reqs :
        LET q == requests[r]
        IN  /\ Sub(r) /\ q.body.f = "x" /\ q.query.f = "y"
            /\ q.log # << >>
            /\ q.log[Len(q.log)].e = "reject"
            /\ q.idx >= 1
            /\ addservices(value)[q.idx].hook = "after"

\* C6: every error a stage raises, thrown when the function is called or
\* delivered as a rejection, is answered by that stage's own handler with a
\* Response Envelope and never reaches the framework's error handling.
C6ErrorsCaught ==
    \A r \in Reqs :
        LET q == requests[r]
        IN  \A p \in DOMAIN q.log :
              /\ q.log[p].e \in {"throw", "reject"} =>
                    \E k \in DOMAIN q.resp :
                        q.resp[k].by = q.log[p].i /\ q.resp[k].envelope
              /\ q.log[p].e # "rethrow"

\* C7: when the callback resolves and the descriptor has no after-hooks (the
\* list is missing or empty) the callback's handler sends the status-200
\* envelope with the result as payload; otherwise it sends nothing and
\* forwards with next(result).
C7CallbackTerminal ==
    \A r \in Reqs :
        LET q == requests[r]
            S == addservices(value)
        IN  Sub(r) =>
              \A p \in DOMAIN q.log :
                LET i == q.log[p].i
                IN  (q.log[p].e = "resolve" /\ i >= 1 /\ S[i].kind = "callback") =>
                      IF Len(value.after) = 0
                      THEN q.resp = << [status |-> 200,
                                        message |-> value.message,
                                        payload |-> ResultPayload(q.log[p].arg),
                                        debug |-> Absent,
                                        by |-> i,
                                        envelope |-> TRUE] >>
                      ELSE /\ ~Responded(q, i)
                           /\ q.log[p + 1] = Event("next", i, q.log[p].arg)

(***************************************************************************)
(* Properties of the CRUD routes, checked under SpecCrud.                  *)
(***************************************************************************)
Crud(r, method) ==
    /\ requests[r].route = "crud"
    /\ requests[r].method = method
    /\ requests[r].pc = "done"

Last(q) == q.log[Len(q.log)]

Range(docs) == {docs[i] : i \in 1..Len(docs)}

SuccessCode(method) == IF method = "post" THEN 201 ELSE 200

FailureCode(method) ==
    CASE method = "post"   -> 422
      [] method = "get"    -> 404
      [] method = "put"    -> 413
      [] method = "delete" -> 422

\* C8: every request to a CRUD route gets exactly one envelope; its status is
\* the route's success code when the operation resolves and the route's
\* failure code when it rejects (POST 201/422, GET 200/404, PUT 200/413,
\* DELETE 200/422), and on failure the payload is the request data and debug
\* the error text.
C8CrudEnvelope ==
    \A r \in Reqs : \A method \in Methods :
        LET q == requests[r]
        IN  Crud(r, method) =>
              /\ Len(q.resp) = 1
              /\ q.resp[1].envelope
              /\ Last(q).e = "resolve" => q.resp[1].status = SuccessCode(method)
              /\ Last(q).e = "reject" =>
                    /\ q.resp[1].status = FailureCode(method)
                    /\ q.resp[1].payload = DataPayload(Merge(q.body, q.query))
                    /\ q.resp[1].debug = Last(q).arg

\* C9: an update whose identifier matches no stored record is answered with
\* status 413 and the not-found debug message, and leaves the stored records
\* unchanged; it is never answered with 200.
C9UpdateOfMissingRecord ==
    \A r \in Reqs :
        LET q == requests[r]
        IN  (Crud(r, "put") /\ q.data._id \notin IdsOf(q.pre)) =>
              /\ q.resp[1].status = 413
              /\ q.resp[1].status # 200
              /\ q.resp[1].debug \in {UpdateMissing, OrmError}
              /\ q.post = q.pre

\* C10: a delete whose identifier matches no stored record is answered with
\* status 422 and the not-found debug message and leaves the stored records
\* unchanged; a delete of a stored identifier removes exactly that record and
\* is answered with status 200.
C10Delete ==
    \A r \in Reqs :
        LET q == requests[r]
        IN  (Crud(r, "delete") /\ Last(q).arg # OrmError) =>
              IF q.data._id \notin IdsOf(q.pre)
              THEN /\ q.resp[1].status = 422
                   /\ q.resp[1].debug = DeleteMissing
                   /\ q.post = q.pre
              ELSE /\ q.resp[1].status = 200
                   /\ Len(q.post) = Len(q.pre) - 1
                   /\ Range(q.post) =
                        {d \in Range(q.pre) : d._id # q.data._id}

\* C10 witness: one of two stored records was deleted, and the other is left.
C10OneOfTwoDeleted ==
    \E r \in Reqs :
        /\ Crud(r, "delete")
        /\ Len(requests[r].pre) = 2
        /\ requests[r].data._id \in IdsOf(requests[r].pre)
        /\ requests[r].resp[1].status = 200
        /\ Len(db) = 1

\* The stored records that match every field of the data other than page
\* and size.
Matching(docs, data) ==
    SelectSeq(docs, LAMBDA d : /\ data._id \in {Absent, d._id}
                               /\ data.f \in {Absent, d.f})

\* page and size of a request as numbers, and whether they ask for a page.
PageOf(q) == Number(Merge(q.body, q.query).page)
SizeOf(q) == Number(Merge(q.body, q.query).size)
Paged(q) ==
    /\ PageOf(q) \in Numbers /\ Val(PageOf(q)) > 0 - 1
    /\ SizeOf(q) \in Numbers /\ Val(SizeOf(q)) > 0

GetResolved(r) == Crud(r, "get") /\ Last(requests[r]).e = "resolve"

\* C11: for GET /name with page > -1 and size > 0 after coercion, the payload
\* is {page, length}: page holds the matching records at positions page*size
\* to page*size+size-1, so min(size, max(0, total - page*size)) records, and
\* length is the number of all matching records.
C11PagedRead ==
    \A r \in Reqs :
        LET q == requests[r]
            all == Matching(q.pre, Merge(q.body, q.query))
            from == Val(PageOf(q)) * Val(SizeOf(q))
            rest == IF Len(all) > from THEN Len(all) - from ELSE 0
        IN  (GetResolved(r) /\ Paged(q)) =>
              /\ q.resp[1].payload.tag = "page"
              /\ q.resp[1].payload.length = Len(all)
              /\ Len(q.resp[1].payload.docs) = Min(Val(SizeOf(q)), rest)
              /\ \A k \in 1..Len(q.resp[1].payload.docs) :
                    q.resp[1].payload.docs[k] = all[from + k]

\* C11 witness: more records match than a page holds; the first page is
\* full and length counts them all.
C11FullFirstPage ==
    \E r \in Reqs :
        LET q == requests[r]
        IN  /\ GetResolved(r) /\ Paged(q)
            /\ Val(PageOf(q)) = 0
            /\ Len(q.resp[1].payload.docs) = Val(SizeOf(q))
            /\ q.resp[1].payload.length > Val(SizeOf(q))

\* A value that is missing or is not a number or a string of digits.
NonNumeric(v) == v \in {Absent, "'x'", "''"}

\* C12 as stated: when page or size is absent or non-numeric, or page < 0, or
\* size <= 0, the payload is the complete unsliced set of matching records.
C12UnslicedWhenNonNumeric ==
    \A r \in Reqs :
        LET q == requests[r]
            d == Merge(q.body, q.query)
        IN  (/\ GetResolved(r)
             /\ \/ NonNumeric(d.page) \/ NonNumeric(d.size)
                \/ ~Paged(q)) =>
              q.resp[1].payload = ListPayload(Matching(q.pre, d))

\* C12 amended: when page or size is absent or coerces to NaN, or page < 0,
\* or size <= 0, the payload is the complete unsliced set of matching
\* records; and in every case the filter is the fields other than page and
\* size.
C12UnslicedRead ==
    \A r \in Reqs :
        LET q == requests[r]
            all == Matching(q.pre, Merge(q.body, q.query))
        IN  GetResolved(r) =>
              /\ ~Paged(q) => q.resp[1].payload = ListPayload(all)
              /\ Paged(q) => q.resp[1].payload.length = Len(all)
              /\ \A k \in 1..Len(q.resp[1].payload.docs) :
                    \E j \in 1..Len(all) : q.resp[1].payload.docs[k] = all[j]

\* C12 witness: size is a number but page is not, and every matching record
\* is returned.
C12AllReturned ==
    \E r \in Reqs :
        LET q == requests[r]
        IN  /\ GetResolved(r)
            /\ PageOf(q) = "NaN" /\ SizeOf(q) = "#1"
            /\ q.resp[1].payload.tag = "list"
            /\ Len(q.resp[1].payload.docs) = 2

\* C13: when the persistence layer accepts the payload, POST /name adds
\* exactly one record and answers 201 with the persisted record and its
\* generated identifier; when it rejects, no record is added and the answer
\* is 422.
C13Create ==
    \A r \in Reqs :
        LET q == requests[r]
            p == q.resp[1].payload
        IN  Crud(r, "post") =>
              IF Last(q).e = "resolve"
              THEN /\ q.resp[1].status = 201
                   /\ Len(q.post) = Len(q.pre) + 1
                   /\ Range(q.pre) \subseteq Range(q.post)
                   /\ p.tag = "doc"
                   /\ p.data._id \in Ids \ IdsOf(q.pre)
                   /\ [_id |-> p.data._id, f |-> p.data.f] \in Range(q.post)
                   /\ p.data.f = Merge(q.body, q.query).f
              ELSE /\ q.resp[1].status = 422
                   /\ q.post = q.pre

\* C13 witness: a payload without identifier was saved next to a stored
\* record and the answer carries the generated identifier.
C13CreatedWithNewId ==
    \E r \in Reqs :
        LET q == requests[r]
        IN  /\ Crud(r, "post") /\ Last(q).e = "resolve"
            /\ Merge(q.body, q.query)._id = Absent
            /\ Len(q.pre) >= 1
            /\ q.resp[1].payload.data._id \in Ids


(***************************************************************************)
(* Properties of the fallback handlers, checked under SpecFallback.        *)
(***************************************************************************)
\* An event that hands an error to the error-handling stage: the body
\* parser's error, a handler's exception, or next() with a truthy argument.
Raises(ev) ==
    \/ ev.e \in {"raise", "throw"}
    \/ ev.e = "next" /\ Truthy(ev.arg)

TooLargeEnvelope(q, error) ==
    [status |-> 413, message |-> TooLargeError,
     payload |-> BodyPayload(q.body), debug |-> error, by |-> 0,
     envelope |-> TRUE]

\* C14: on any route the error-handling stage answers an error with status
\* 413, the fixed too-large message and the error as debug exactly when the
\* error's type is entity.too.large; for every other error it emits no
\* envelope and throws the same error again.
C14TooLargeFallback ==
    \A r \in Reqs :
        LET q == requests[r]
        IN  /\ \A p \in DOMAIN q.log : Raises(q.log[p]) =>
                  LET error == q.log[p].arg
                  IN  IF error = EntityTooLarge
                      THEN /\ p = Len(q.log)
                           /\ q.resp = <<TooLargeEnvelope(q, error)>>
                      ELSE /\ p + 1 = Len(q.log)
                           /\ q.log[p + 1] = Event("rethrow", 0, error)
                           /\ \A k \in DOMAIN q.resp :
                                  q.resp[k].by = 0 => ~q.resp[k].envelope
            /\ \A k \in DOMAIN q.resp :
                  q.resp[k].by = 0 /\ q.resp[k].status = 413 =>
                      \E p \in DOMAIN q.log :
                          Raises(q.log[p]) /\ q.log[p].arg = EntityTooLarge

\* C14 witness: an oversized body on the CRUD route was answered with 413.
C14OversizedBodyAnswered ==
    \E r \in Reqs :
        /\ requests[r].route = "crud"
        /\ requests[r].log = <<Event("raise", 0, EntityTooLarge)>>
        /\ Len(requests[r].resp) = 1
        /\ requests[r].resp[1].status = 413

\* The request passed the body parser.
Parsed(q) == \A p \in DOMAIN q.log : q.log[p].e # "raise"

\* C15: a parsed request that matches no registered route receives exactly
\* one response: status 404, the request body as payload, message and debug
\* both the fixed not-found string; a request answered by a route's handler
\* never reaches the 404 responder as well.
C15NotFoundFallback ==
    \A r \in Reqs :
        LET q == requests[r]
        IN  /\ (q.route = "none" /\ q.pc = "done" /\ Parsed(q)) =>
                  q.resp = <<[status |-> 404, message |-> NotFoundError,
                              payload |-> BodyPayload(q.body),
                              debug |-> NotFoundError, by |-> 0,
                              envelope |-> TRUE]>>
            /\ (q.route = "none" /\ q.pc # "done") => q.pc = "idle"
            /\ (\E k \in DOMAIN q.resp : q.resp[k].by >= 1) =>
                  \A k \in DOMAIN q.resp :
                      ~(q.resp[k].by = 0 /\ q.resp[k].status = 404)

\* C15 witness: an unmatched request with a body field was answered 404.
C15UnmatchedAnswered ==
    \E r \in Reqs :
        /\ requests[r].route = "none"
        /\ requests[r].body.f = "x"
        /\ Len(requests[r].resp) = 1
        /\ requests[r].resp[1].status = 404

(***************************************************************************)
(* Properties of User.authorize, checked under SpecAuthorize.              *)
(***************************************************************************)
MatchesOf(data) ==
    {i \in DOMAIN db : /\ db[i].username = data.username
                       /\ db[i].password = data.password}

EmptyUsername(data) == data.username \in {Absent, "''"}

\* C16: authorize returns a record only for a non-empty username and a
\* stored record matching username and password, and returns that record;
\* an empty or missing username fails with the validation error before any
\* lookup; no matching record fails with the authentication error and
\* returns no record.
C16Authorize ==
    call.pc = "done" =>
        LET data == call.data
        IN  /\ call.out.kind = "resolve" =>
                  /\ ~EmptyUsername(data)
                  /\ \E i \in MatchesOf(data) : call.out.value = <<db[i]>>
            /\ EmptyUsername(data) =>
                  /\ call.out = Outcome("throw", UsernameRequired, << >>)
                  /\ call.lookups = 0
            /\ (~EmptyUsername(data) /\ MatchesOf(data) = {}) =>
                  /\ call.lookups = 1
                  /\ call.out.kind = "reject"
                  /\ call.out.value = << >>
                  /\ call.settled = "resolved" => call.out.error = Incorrect

\* C16 witness: of two records with one username the one with the given
\* password was returned.
C16RightPasswordReturned ==
    /\ call.pc = "done"
    /\ call.out.kind = "resolve"
    /\ Len(db) = 2
    /\ db[1].username = db[2].username
    /\ call.out.value = <<db[2]>>

(***************************************************************************)
(* Properties of the Store constructor, checked under SpecStore.           *)
(***************************************************************************)
StepNames == [i \in DOMAIN store.steps |-> store.steps[i].step]

\* C17: the constructor registers the schema hooks, calls onmodel, compiles
\* the model handle, calls oninit and calls onready, each once and in this
\* order; onmodel runs before the model handle exists, onready after oninit.
C17ConstructionOrder ==
    LET order == <<"hooks", "onmodel", "model", "oninit", "onready">>
    IN  /\ Len(StepNames) <= Len(order)
        /\ StepNames = SubSeq(order, 1, Len(StepNames))
        /\ (~Constructing /\ ~store.failed) => StepNames = order
        /\ \A i \in DOMAIN store.steps :
              /\ store.steps[i].step \in {"hooks", "onmodel", "model"} =>
                    ~store.steps[i].storage
              /\ store.steps[i].step \in {"oninit", "onready"} =>
                    store.steps[i].storage
        /\ store.hooked <=> \E i \in DOMAIN StepNames : StepNames[i] = "hooks"
        /\ store.storage <=> \E i \in DOMAIN StepNames : StepNames[i] = "model"

\* C17 witness: a construction that ran to its end.
C17Constructed ==
    /\ ~Constructing
    /\ ~store.failed
    /\ Len(store.steps) = 5
    /\ store.steps[5].step = "onready"



(***************************************************************************)
(* Properties of pending stages, checked under SpecFallback.               *)
(***************************************************************************)
Settled(ev) == ev.e \in {"resolve", "reject"}

\* C18: while a stage of a request's chain has not settled, the request has
\* no response and no later stage has been invoked, and the only step that
\* changes the request is the settlement of that stage: nothing times out
\* or cancels.
C18PendingStageStalls ==
    /\ [](\A r \in Reqs :
            LET q == requests[r]
            IN  q.pc = "pending" =>
                  /\ q.resp = << >>
                  /\ q.log[Len(q.log)] = Event("invoke", q.idx, Absent)
                  /\ \A p \in DOMAIN q.log :
                        q.log[p].e = "invoke" => q.log[p].i <= q.idx)
    /\ [][\A r \in Reqs :
            (requests[r].pc = "pending" /\ requests'[r] # requests[r]) =>
                LET n == Len(requests[r].log)
                IN  /\ Len(requests'[r].log) > n
                    /\ Settled(requests'[r].log[n + 1])
                    /\ requests'[r].log[n + 1].i = requests[r].idx]_vars

\* C18 witness: the second stage of a chain is pending after the first one
\* resolved, and the request is unanswered.
C18SecondStagePending ==
    \E r \in Reqs :
        /\ requests[r].pc = "pending"
        /\ requests[r].idx = 2
        /\ requests[r].resp = << >>
        /\ \E p \in DOMAIN requests[r].log : requests[r].log[p].e = "resolve"

(***************************************************************************)
(* Properties of single attempts, checked under Spec.                      *)
(***************************************************************************)
Attempts(q, i) ==
    Len(SelectSeq(q.log, LAMBDA ev : ev.e = "invoke" /\ ev.i = i))

\* Stage i of the chain succeeded: its promise resolved, and for the gate
\* with a truthy value.
Succeeded(q, i) ==
    \E p \in DOMAIN q.log :
        /\ q.log[p].e = "resolve"
        /\ q.log[p].i = i
        /\ Stack(q)[i].kind = "authenticate" => Truthy(q.log[p].arg)

\* C19: within one request every operation of the chain is attempted at most
\* once, and exactly once when all earlier stages succeeded.
C19AttemptedOnce ==
    \A r \in Reqs :
        LET q == requests[r]
        IN  Sub(r) =>
              \A i \in 1..Len(Stack(q)) :
                  /\ Attempts(q, i) <= 1
                  /\ (\A j \in 1..(i - 1) : Succeeded(q, j)) =>
                        Attempts(q, i) = 1

(***************************************************************************)
(* Properties of two requests in flight, checked under SpecConc.           *)
(***************************************************************************)
Throws(q, i) ==
    \E p \in DOMAIN q.log : q.log[p].e = "throw" /\ q.log[p].i = i

\* The outcomes of the request's own stages, in the order they settled.
Settles(q) == SelectSeq(q.log, Settled)

\* One stage of request cur settles as event ev says; t tells whether the
\* stage called next throws.
Settle(cur, ev, t) ==
    LET kind == Stack(cur)[cur.idx].kind
        q1   == Logged(cur, ev.e, ev.arg)
    IN  IF ev.e = "reject"
        THEN IF kind = "authenticate" THEN authenticateCatch(q1, ev.arg)
             ELSE IF kind = "hooker" THEN hookerCatch(q1, ev.arg)
             ELSE callbackCatch(q1, ev.arg)
        ELSE IF kind = "authenticate" THEN authenticateThen(q1, ev.arg, t)
             ELSE IF kind = "hooker" THEN hookerThen(q1, ev.arg, t)
             ELSE callbackThen(q1, ev.arg, t)

RECURSIVE Run(_, _, _)
Run(q, cur, evs) ==
    IF evs = << >> \/ cur.pc # "pending" THEN cur
    ELSE Run(q, Settle(cur, Head(evs), Throws(q, cur.idx + 1)), Tail(evs))

\* Request q served alone: the same body, query and stage outcomes.
Replay(q) ==
    Run(q, handle([Idle EXCEPT !.route = q.route, !.method = q.method,
                               !.body = q.body, !.query = q.query],
                  Throws(q, 1)),
        Settles(q))

\* C20: with two requests in flight in any interleaving, each request gets
\* a single response of its own, and its response is the one the request
\* gets when served alone with the same data and the same outcomes of its
\* own stages; a step of one request leaves the other request untouched.
C20RequestLocal ==
    /\ [](\A r \in Reqs :
            LET q == requests[r]
            IN  /\ q.pc = "done" => Len(q.resp) = 1
                /\ q.pc # "done" => q.resp = << >>
                /\ q.pc # "idle" => q = Replay(q))
    /\ [][\A r, o \in Reqs :
            (r # o /\ requests'[r] # requests[r]) =>
                requests'[o] = requests[o]]_vars

\* C20 witness: two requests with different data ran more than one stage
\* each and were answered differently.
C20BothAnswered ==
    /\ requests[1].pc = "done"
    /\ requests[2].pc = "done"
    /\ requests[1].body # requests[2].body
    /\ requests[1].resp[1].status = 200
    /\ requests[2].resp[1].status = 422
    /\ requests[2].resp[1].by = 2
    /\ Attempts(requests[1], 2) = 1



(***************************************************************************)
(* Properties of the data of a stage, checked under Spec.                  *)
(***************************************************************************)
\* C21: every stage of a sub-route is called with the merged body+query data
\* of the request, whatever the earlier stages passed to next, and the
\* payload of a success envelope is the value the responding stage resolved
\* with.
C21StageInput ==
    /\ [](\A r \in Reqs :
            LET q == requests[r]
            IN  Sub(r) =>
                  /\ Invoked(q) # << >> => q.data = Merge(q.body, q.query)
                  /\ \A k \in DOMAIN q.resp : q.resp[k].status = 200 =>
                        \E p \in DOMAIN q.log :
                            /\ q.log[p].e = "resolve"
                            /\ q.log[p].i = q.resp[k].by
                            /\ q.resp[k].payload = ResultPayload(q.log[p].arg))
    /\ [][\A r \in Reqs :
            (Sub(r) /\ Invoked(requests[r]) # << >>) =>
                      /\ requests'[r].data = requests[r].data
                      /\ requests'[r].body = requests[r].body
                      /\ requests'[r].query = requests[r].query]_vars

\* C21 witness: a stage was called with body and query data after an earlier
\* stage had forwarded its result, and answered with its own result.
C21LaterStageAnswered ==
    \E r \in Reqs :
        LET q == requests[r]
        IN  /\ Sub(r) /\ q.body.f = "x" /\ q.query.f = "y"
            /\ \E p \in DOMAIN q.log :
                  /\ p < Len(q.log)
                  /\ q.log[p] = Event("next", 1, "undefined")
                  /\ q.log[p + 1] = Event("invoke", 2, Absent)
            /\ Len(q.resp) = 1
            /\ q.resp[1].status = 200
            /\ q.resp[1].payload = ResultPayload("value")



(***************************************************************************)
(* Properties of a chain whose stages all resolve, checked under Spec.     *)
(***************************************************************************)
\* Every stage of q that settled resolved, the gate with a truthy value, and
\* no stage threw when it was called.
AllResolved(q) ==
    \A p \in DOMAIN q.log :
        /\ q.log[p].e \notin {"reject", "throw"}
        /\ (q.log[p].e = "resolve" /\ Stack(q)[q.log[p].i].kind = "authenticate")
              => Truthy(q.log[p].arg)

\* C22: a request to a sub-route with a callback whose gate succeeds and
\* whose hooks and callback all resolve ends with the status-200 envelope
\* carrying the descriptor's success message, sent by a handler of the
\* sub-route's chain.
C22SuccessEnvelope ==
    \A r \in Reqs :
        LET q == requests[r]
        IN  (Sub(r) /\ value.callback /\ q.pc = "done" /\ AllResolved(q)) =>
              /\ Len(q.resp) = 1
              /\ q.resp[1].status = 200
              /\ q.resp[1].message = value.message
              /\ q.resp[1].envelope
              /\ q.resp[1].by >= 1



(***************************************************************************)
(* Properties of a rejected stage, checked under Spec.                     *)
(***************************************************************************)
\* C23: after a before-hook, the callback or an after-hook of a sub-route
\* rejects, the 422 error envelope of that stage is the request's only
\* response, no later stage of the chain is invoked, and the request does
\* not change any more.
C23RejectionEndsChain ==
    /\ [](\A r \in Reqs :
            LET q == requests[r]
                S == addservices(value)
            IN  Sub(r) =>
                  \A p \in DOMAIN q.log :
                    (/\ q.log[p].e = "reject" /\ q.log[p].i >= 1
                     /\ S[q.log[p].i].kind \in {"hooker", "callback"}) =>
                        /\ p = Len(q.log)
                        /\ q.pc = "done"
                        /\ Len(q.resp) = 1
                        /\ q.resp[1].status = 422
                        /\ q.resp[1].by = q.log[p].i
                        /\ \A n \in DOMAIN q.log :
                              q.log[n].e = "invoke" => q.log[n].i <= q.log[p].i)
    /\ [][\A r \in Reqs :
            (/\ Sub(r) /\ requests[r].log # << >>
             /\ requests[r].log[Len(requests[r].log)].e = "reject") =>
                requests'[r] = requests[r]]_vars

\* C23 witness: the first before-hook rejected while a second before-hook,
\* the callback and an after-hook were still to come.
C23FirstHookRejected ==
    \E r \in Reqs :
        LET q == requests[r]
        IN  /\ Sub(r) /\ ~value.authenticate /\ value.callback
            /\ Len(value.before) = 2 /\ Len(value.after) >= 1
            /\ q.log = <<Event("invoke", 1, Absent), Event("reject", 1, HookError)>>
            /\ Len(q.resp) = 1



(***************************************************************************)
(* Properties of the service-level hooks, checked under SpecService.       *)
(***************************************************************************)
HandlersInvoked(q) ==
    {Stack(q)[q.log[p].i] :
        p \in {n \in DOMAIN q.log : q.log[n].e = "invoke"}}

\* C24: the handler of a service-level hook ends the request itself, with
\* 201 and the request data when the hook resolves and with 422 when it
\* fails, and never forwards; with a before-hook registered for a method
\* the CRUD operation of that method is never invoked, and with CRUD
\* registered an after-hook of the method is never invoked.
C24ServiceHookTerminates ==
    \A r \in Reqs :
        LET q == requests[r]
            m == q.method
        IN  q.route = "crud" =>
              /\ \A p \in DOMAIN q.log :
                    (/\ q.log[p].e = "invoke"
                     /\ Stack(q)[q.log[p].i].kind = "service") =>
                        /\ ~Forwarded(q, q.log[p].i)
                        /\ q.pc = "done" =>
                              /\ Len(q.resp) = 1
                              /\ q.resp[1].by = q.log[p].i
                              /\ q.resp[1].payload =
                                    DataPayload(Merge(q.body, q.query))
                              /\ \/ /\ q.resp[1].status = 201
                                    /\ q.log[Len(q.log)].e = "resolve"
                                 \/ /\ q.resp[1].status = 422
                                    /\ q.resp[1].message = ServiceError
              /\ properties.hooks.before[m] # << >> =>
                    \A h \in HandlersInvoked(q) : h.kind # "crud"
              /\ properties.store =>
                    \A h \in HandlersInvoked(q) : h.hook # "after"



(***************************************************************************)
(* Properties of the Store's cache, checked under SpecStore.               *)
(***************************************************************************)
Cached == {id \in Ids : store.cache.data[id] # Absent}

\* C25: after any sequence of post-save, post-update and post-remove events
\* on the cache created at construction, count equals the number of records
\* held in data (the claim's statement about count).
C25CountMatchesData ==
    store.cache.count = Cardinality(Cached)


====
